---- MODULE Spec2Model ----
(***************************************************************************)
(* State-machine model of the environment-monitoring core                  *)
(* (src/app/environment): indicator registry, readings with threshold      *)
(* classification at ingest, the audit workflow, the device registry,      *)
(* the calibration ledger and the calibration-due query.                   *)
(*                                                                         *)
(* Tables are partial functions from primary key to row.  A nullable       *)
(* column holds Null (the empty tuple) or Some(v).  Strings of the source  *)
(* are written in ASCII: "Unaudited" is the audit_status default of        *)
(* models.py line 35, "Audited" and "PendingVerification" the two other    *)
(* documented values, "normal" / "fault" / "offline" the device statuses   *)
(* ("offline" is the literal compared in queries.py line 109).             *)
(***************************************************************************)
EXTENDS Integers, Sequences, FiniteSets, TLC

VARIABLES
    indices,              \* indicator table: index_id -> row
    readings,             \* reading table: data_id -> row
    thresholds_at_create, \* history: data_id -> the indicator row read by the creating call
    devices,              \* device table: id -> row
    next_device_id,       \* identity counter of the device table
    calibration_records,  \* calibration ledger: record_id -> row
    now,                  \* wall clock, in ticks
    response,             \* reply to the last request: [op, status, body]
    sessions,             \* requests in flight: session id -> [pc, op, body, loaded]
    index_versions        \* history: the indicator rows committed so far

vars == <<indices, readings, thresholds_at_create, devices, next_device_id,
          calibration_records, now, response, sessions, index_versions>>

----------------------------------------------------------------------------
(* Bounds of the model *)

MaxValue == 2
MaxNow == 3
TicksPerDay == 2
MaxDevices == 1

----------------------------------------------------------------------------
(* Nullable values *)

Null == <<>>
Some(v) == <<v>>
Val(o) == o[1]

(* Removal of a row from a table *)
Without(table, key) == [k \in DOMAIN table \ {key} |-> table[k]]

----------------------------------------------------------------------------
(* Input domains *)

IndexIds == {"I1"}
DataIds == {"d1", "d2"}
Values == 1..MaxValue
Uppers == {1, 2}
Lowers == {1, 2}
AuditStatuses == {"Unaudited", "Audited", "PendingVerification"}
OperatorReason == <<"operator", 0, 0>>
ReasonArgs == {Null, Some(OperatorReason)}

DefaultAuditStatus == "Unaudited"
(* data_quality: excellent, good, fair, poor *)
Qualities == {"excellent", "good", "fair", "poor"}
DefaultDataQuality == "fair"

DeviceStatuses == {"normal", "offline"}
Cycles == {1}
DefaultCalibrationCycle == 30
Times == 0..MaxNow
RecordIds == {"c1"}
SessionIds == {"s1", "s2"}
Idle == [pc |-> "idle", op |-> "none", body |-> <<>>, loaded |-> <<>>]
DeviceRefs == 1..(MaxDevices + 1)

----------------------------------------------------------------------------
(* The store as one value, and its commit *)

DB == [indices |-> indices, readings |-> readings, devices |-> devices,
       next_device_id |-> next_device_id,
       calibration_records |-> calibration_records]

Commit(db) ==
    /\ indices' = db.indices
    /\ readings' = db.readings
    /\ devices' = db.devices
    /\ next_device_id' = db.next_device_id
    /\ calibration_records' = db.calibration_records

(* db.get(Table, key): the row, or None *)
(* The store's referential check when a row is inserted.  The design tolerates
   a reference to a row that is missing (a reading of an unknown indicator, a
   calibration record of an unknown device): the insert is accepted *)
StoreAcceptsReference(table, key) == TRUE

Get(table, key) == IF key \in DOMAIN table THEN Some(table[key]) ELSE Null

Reply(op, status, body) == [op |-> op, status |-> status, body |-> body]

(* The reply of a request that runs alone, from its first query to its commit *)
Respond(op, status, body) ==
    /\ response' = Reply(op, status, body)
    /\ UNCHANGED <<sessions, index_versions>>

----------------------------------------------------------------------------
(* Indicator registry *)

EnvironmentQueries_create_monitor_index(db, index) ==
    [db |-> [db EXCEPT !.indices = [k \in DOMAIN @ \cup {index.index_id} |->
                IF k = index.index_id
                THEN [index_name |-> index.index_name,
                      upper_threshold |-> index.upper_threshold,
                      lower_threshold |-> index.lower_threshold]
                ELSE @[k]]],
     result |-> Some(index.index_id)]

(* Variant: a supplied threshold is added to the stored one *)
ApplyUpdateData_relative(db_index, update_data) ==
    [index_name |-> IF update_data.index_name # Null
                    THEN Val(update_data.index_name)
                    ELSE db_index.index_name,
     upper_threshold |-> IF update_data.upper_threshold # Null
                         THEN db_index.upper_threshold + Val(update_data.upper_threshold)
                         ELSE db_index.upper_threshold,
     lower_threshold |-> IF update_data.lower_threshold # Null
                         THEN db_index.lower_threshold + Val(update_data.lower_threshold)
                         ELSE db_index.lower_threshold]

(* for key, value in update_data.items(): if value is not None: setattr *)
ApplyUpdateData(db_index, update_data) ==
    [index_name |-> IF update_data.index_name # Null
                    THEN Val(update_data.index_name)
                    ELSE db_index.index_name,
     upper_threshold |-> IF update_data.upper_threshold # Null
                         THEN Val(update_data.upper_threshold)
                         ELSE db_index.upper_threshold,
     lower_threshold |-> IF update_data.lower_threshold # Null
                         THEN Val(update_data.lower_threshold)
                         ELSE db_index.lower_threshold]

(* Variant: a threshold change re-classifies the readings already stored *)
EnvironmentQueries_update_monitor_index_reclassify(db, index_id, update_data) ==
    LET db_index == Get(db.indices, index_id) IN
    IF db_index = Null
    THEN [db |-> db, result |-> Null]
    ELSE LET new_index == ApplyUpdateData(Val(db_index), update_data)
             reclassified(r) ==
                 IF r.index_id # index_id THEN r
                 ELSE [r EXCEPT !.is_abnormal =
                          IF \/ r.monitor_value > new_index.upper_threshold
                             \/ r.monitor_value < new_index.lower_threshold
                          THEN 1 ELSE 0]
         IN [db |-> [db EXCEPT !.indices[index_id] = new_index,
                               !.readings = [k \in DOMAIN @ |-> reclassified(@[k])]],
             result |-> Some(index_id)]

(* Variant: an indicator update reopens the audit of the indicator's readings *)
EnvironmentQueries_update_monitor_index_reopens_audit(db, index_id, update_data) ==
    LET db_index == Get(db.indices, index_id) IN
    IF db_index = Null
    THEN [db |-> db, result |-> Null]
    ELSE [db |-> [db EXCEPT !.indices[index_id] =
                                ApplyUpdateData(Val(db_index), update_data),
                            !.readings = [k \in DOMAIN @ |->
                                IF @[k].index_id = index_id
                                THEN [@[k] EXCEPT !.audit_status = DefaultAuditStatus]
                                ELSE @[k]]],
          result |-> Some(index_id)]

EnvironmentQueries_update_monitor_index(db, index_id, update_data) ==
    LET db_index == Get(db.indices, index_id) IN
    IF db_index = Null
    THEN [db |-> db, result |-> Null]
    ELSE [db |-> [db EXCEPT !.indices[index_id] =
                     ApplyUpdateData(Val(db_index), update_data)],
          result |-> Some(index_id)]

EnvironmentQueries_delete_monitor_index(db, index_id) ==
    IF Get(db.indices, index_id) = Null
    THEN [db |-> db, result |-> FALSE]
    ELSE [db |-> [db EXCEPT !.indices = Without(@, index_id)], result |-> TRUE]

(* POST /monitor-indices *)
create_monitor_index(index) ==
    IF Get(indices, index.index_id) # Null
    THEN /\ Respond("create_monitor_index", 400, {})
         /\ UNCHANGED <<indices, readings, thresholds_at_create, devices,
                        next_device_id, calibration_records, now>>
    ELSE /\ Commit(EnvironmentQueries_create_monitor_index(DB, index).db)
         /\ Respond("create_monitor_index", 200, {})
         /\ UNCHANGED <<thresholds_at_create, now>>

(* PATCH /monitor-indices/{index_id} *)
update_monitor_index(index_id, payload) ==
    LET updated == EnvironmentQueries_update_monitor_index(DB, index_id, payload) IN
    /\ Commit(updated.db)
    /\ Respond("update_monitor_index",
                         IF updated.result = Null THEN 404 ELSE 200, {})
    /\ UNCHANGED <<thresholds_at_create, now>>

(* DELETE /monitor-indices/{index_id} *)
delete_monitor_index(index_id) ==
    LET done == EnvironmentQueries_delete_monitor_index(DB, index_id) IN
    /\ Commit(done.db)
    /\ Respond("delete_monitor_index",
                         IF done.result THEN 200 ELSE 404, {})
    /\ UNCHANGED <<thresholds_at_create, now>>

----------------------------------------------------------------------------
(* Readings: classification at ingest *)

(* f"...{monitor_value}...{threshold}": the text names the bound, the value and
   the threshold *)
ExceedsUpper(value, threshold) == <<"exceeds_upper_threshold", value, threshold>>
BelowLower(value, threshold) == <<"below_lower_threshold", value, threshold>>

(* Variant: the lower bound is compared before the upper bound *)
Classify_lower_first(monitor_index, monitor_value) ==
    IF monitor_index # Null
    THEN IF monitor_value < Val(monitor_index).lower_threshold
         THEN [is_abnormal |-> 1,
               abnormal_reason |-> Some(BelowLower(monitor_value,
                                        Val(monitor_index).lower_threshold))]
         ELSE IF monitor_value > Val(monitor_index).upper_threshold
         THEN [is_abnormal |-> 1,
               abnormal_reason |-> Some(ExceedsUpper(monitor_value,
                                        Val(monitor_index).upper_threshold))]
         ELSE [is_abnormal |-> 0, abnormal_reason |-> Null]
    ELSE [is_abnormal |-> 0, abnormal_reason |-> Null]

(* Variant: a reading of an unknown indicator is flagged for lack of thresholds *)
Classify_unknown_abnormal(monitor_index, monitor_value) ==
    IF monitor_index # Null
    THEN IF monitor_value > Val(monitor_index).upper_threshold
         THEN [is_abnormal |-> 1,
               abnormal_reason |-> Some(ExceedsUpper(monitor_value,
                                        Val(monitor_index).upper_threshold))]
         ELSE IF monitor_value < Val(monitor_index).lower_threshold
         THEN [is_abnormal |-> 1,
               abnormal_reason |-> Some(BelowLower(monitor_value,
                                        Val(monitor_index).lower_threshold))]
         ELSE [is_abnormal |-> 0, abnormal_reason |-> Null]
    ELSE [is_abnormal |-> 1, abnormal_reason |-> Null]

(* Variant: a value equal to a threshold counts as outside it *)
Classify_inclusive(monitor_index, monitor_value) ==
    IF monitor_index # Null
    THEN IF monitor_value >= Val(monitor_index).upper_threshold
         THEN [is_abnormal |-> 1,
               abnormal_reason |-> Some(ExceedsUpper(monitor_value,
                                        Val(monitor_index).upper_threshold))]
         ELSE IF monitor_value <= Val(monitor_index).lower_threshold
         THEN [is_abnormal |-> 1,
               abnormal_reason |-> Some(BelowLower(monitor_value,
                                        Val(monitor_index).lower_threshold))]
         ELSE [is_abnormal |-> 0, abnormal_reason |-> Null]
    ELSE [is_abnormal |-> 0, abnormal_reason |-> Null]

Classify(monitor_index, monitor_value) ==
    IF monitor_index # Null
    THEN IF monitor_value > Val(monitor_index).upper_threshold
         THEN [is_abnormal |-> 1,
               abnormal_reason |-> Some(ExceedsUpper(monitor_value,
                                        Val(monitor_index).upper_threshold))]
         ELSE IF monitor_value < Val(monitor_index).lower_threshold
         THEN [is_abnormal |-> 1,
               abnormal_reason |-> Some(BelowLower(monitor_value,
                                        Val(monitor_index).lower_threshold))]
         ELSE [is_abnormal |-> 0, abnormal_reason |-> Null]
    ELSE [is_abnormal |-> 0, abnormal_reason |-> Null]

(* The request body as the schema keeps it: fields the schema does not declare
   (audit_status among them) are dropped *)
EnvironmentDataCreate(body) ==
    [data_id |-> body.data_id, index_id |-> body.index_id,
     device_id |-> body.device_id, collect_time |-> body.collect_time,
     monitor_value |-> body.monitor_value, area_id |-> body.area_id,
     data_quality |-> IF body.data_quality = Null THEN DefaultDataQuality
                      ELSE Val(body.data_quality)]

(* Variant: an abnormal reading starts in PendingVerification *)
EnvironmentDataRow_flagged(data, classified) ==
    [index_id |-> data.index_id,
     device_id |-> data.device_id,
     collect_time |-> data.collect_time,
     monitor_value |-> data.monitor_value,
     area_id |-> data.area_id,
     data_quality |-> data.data_quality,
     is_abnormal |-> classified.is_abnormal,
     abnormal_reason |-> classified.abnormal_reason,
     audit_status |-> IF classified.is_abnormal = 1
                      THEN "PendingVerification" ELSE DefaultAuditStatus]

(* The inserted row; audit_status is not passed, so the column default applies *)
EnvironmentDataRow(data, classified) ==
    [index_id |-> data.index_id,
     device_id |-> data.device_id,
     collect_time |-> data.collect_time,
     monitor_value |-> data.monitor_value,
     area_id |-> data.area_id,
     data_quality |-> data.data_quality,
     is_abnormal |-> classified.is_abnormal,
     abnormal_reason |-> classified.abnormal_reason,
     audit_status |-> DefaultAuditStatus]

EnvironmentQueries_create_environment_data(db, data) ==
    LET monitor_index == Get(db.indices, data.index_id)
        db_data == EnvironmentDataRow(data, Classify(monitor_index, data.monitor_value))
    IN IF ~StoreAcceptsReference(db.indices, data.index_id)
       THEN [db |-> db, result |-> Null]    \* rejected by the store: rolled back
       ELSE [db |-> [db EXCEPT !.readings = [k \in DOMAIN @ \cup {Val(data.data_id)} |->
                        IF k = Val(data.data_id) THEN db_data ELSE @[k]]],
             result |-> data.data_id]

(* Variant: the handler does not look for an existing row, and the insert
   replaces it *)
create_environment_data_overwrite(body) ==
    \E generated \in DataIds \cup {Val(id) : id \in {body.data_id} \ {Null}} :
        LET data == [EnvironmentDataCreate(body) EXCEPT !.data_id =
                        IF @ = Null THEN Some(generated) ELSE @]
        IN
        /\ (body.data_id # Null => generated = Val(body.data_id))
        /\ Commit(EnvironmentQueries_create_environment_data(DB, data).db)
        /\ thresholds_at_create' =
              [k \in DOMAIN thresholds_at_create \cup {Val(data.data_id)} |->
                  IF k = Val(data.data_id)
                  THEN Get(indices, data.index_id)
                  ELSE thresholds_at_create[k]]
        /\ Respond("create_environment_data", 200, {})
        /\ UNCHANGED now

(* POST /environment-data; an omitted data_id is generated (timestamp plus
   random suffix), modelled as any id *)
create_environment_data(body) ==
    \E generated \in DataIds \cup {Val(id) : id \in {body.data_id} \ {Null}} :
        LET data == [EnvironmentDataCreate(body) EXCEPT !.data_id =
                        IF @ = Null THEN Some(generated) ELSE @]
        IN
        /\ (body.data_id # Null => generated = Val(body.data_id))
        /\ IF Get(readings, Val(data.data_id)) # Null
           THEN /\ Respond("create_environment_data", 400, {})
                /\ UNCHANGED <<indices, readings, thresholds_at_create, devices,
                               next_device_id, calibration_records, now>>
           ELSE LET created == EnvironmentQueries_create_environment_data(DB, data) IN
                /\ Commit(created.db)
                /\ thresholds_at_create' =
                      IF created.result = Null THEN thresholds_at_create
                      ELSE [k \in DOMAIN thresholds_at_create \cup {Val(data.data_id)} |->
                               IF k = Val(data.data_id)
                               THEN Get(indices, data.index_id)
                               ELSE thresholds_at_create[k]]
                /\ Respond("create_environment_data",
                           IF created.result = Null THEN 500 ELSE 200, {})
                /\ UNCHANGED now

EnvironmentQueries_delete_environment_data(db, data_id) ==
    IF Get(db.readings, data_id) = Null
    THEN [db |-> db, result |-> FALSE]
    ELSE [db |-> [db EXCEPT !.readings = Without(@, data_id)], result |-> TRUE]

(* DELETE /environment-data/{data_id} *)
delete_environment_data(data_id) ==
    LET done == EnvironmentQueries_delete_environment_data(DB, data_id) IN
    /\ Commit(done.db)
    /\ thresholds_at_create' = Without(thresholds_at_create, data_id)
    /\ Respond("delete_environment_data",
                         IF done.result THEN 200 ELSE 404, {})
    /\ UNCHANGED now

----------------------------------------------------------------------------
(* Audit workflow *)

(* Variant: marking a reading Audited clears its abnormal flag *)
ApplyAudit_clears_flag(db_data, audit_status, abnormal_reason) ==
    [db_data EXCEPT !.audit_status = audit_status,
                    !.abnormal_reason = IF abnormal_reason # Null
                                        THEN abnormal_reason ELSE @,
                    !.is_abnormal = IF audit_status = "Audited" THEN 0 ELSE @]

(* Variant: the reason column is assigned whether or not a reason is supplied *)
ApplyAudit_always_assigns(db_data, audit_status, abnormal_reason) ==
    [db_data EXCEPT !.audit_status = audit_status,
                    !.abnormal_reason = abnormal_reason]

(* Variant: a reading that has left Unaudited cannot return to it *)
ApplyAudit_one_way(db_data, audit_status, abnormal_reason) ==
    [db_data EXCEPT !.audit_status = IF audit_status = "Unaudited" THEN @
                                     ELSE audit_status,
                    !.abnormal_reason = IF abnormal_reason # Null
                                        THEN abnormal_reason ELSE @]

ApplyAudit(db_data, audit_status, abnormal_reason) ==
    [db_data EXCEPT !.audit_status = audit_status,
                    !.abnormal_reason = IF abnormal_reason # Null
                                        THEN abnormal_reason ELSE @]

(* Variant: an unknown data_id gets a row instead of None *)
EnvironmentQueries_update_data_audit_status_upsert(db, data_id, audit_status, abnormal_reason) ==
    [db |-> [db EXCEPT !.readings = [k \in DOMAIN @ \cup {data_id} |->
                IF k = data_id
                THEN IF data_id \in DOMAIN @
                     THEN ApplyAudit(@[k], audit_status, abnormal_reason)
                     ELSE [index_id |-> "I1", device_id |-> 1, collect_time |-> 0,
                           monitor_value |-> 1, area_id |-> 1,
                           data_quality |-> DefaultDataQuality, is_abnormal |-> 0,
                           abnormal_reason |-> abnormal_reason,
                           audit_status |-> audit_status]
                ELSE @[k]]],
     result |-> Some(data_id)]

EnvironmentQueries_update_data_audit_status(db, data_id, audit_status, abnormal_reason) ==
    LET db_data == Get(db.readings, data_id) IN
    IF db_data = Null
    THEN [db |-> db, result |-> Null]
    ELSE [db |-> [db EXCEPT !.readings[data_id] =
                     ApplyAudit(Val(db_data), audit_status, abnormal_reason)],
          result |-> Some(data_id)]

(* PUT /environment-data/{data_id}/audit *)
audit_environment_data(data_id, audit_status, abnormal_reason) ==
    LET updated == EnvironmentQueries_update_data_audit_status(
                       DB, data_id, audit_status, abnormal_reason) IN
    /\ Commit(updated.db)
    /\ Respond("audit_environment_data",
                         IF updated.result = Null THEN 404 ELSE 200, {})
    /\ UNCHANGED <<thresholds_at_create, now>>

----------------------------------------------------------------------------
(* Device registry *)

(* The request body as the schema keeps it: calibration_cycle defaults to 30,
   status to "normal" *)
MonitorDeviceCreate(body) ==
    [calibration_cycle |-> IF body.calibration_cycle = Null
                           THEN DefaultCalibrationCycle
                           ELSE Val(body.calibration_cycle),
     last_calibration_time |-> body.last_calibration_time,
     status |-> IF body.status = Null THEN "normal" ELSE Val(body.status),
     deployment_area_id |-> body.deployment_area_id]

EnvironmentQueries_create_monitor_device(db, device) ==
    [db |-> [db EXCEPT !.devices = [k \in DOMAIN @ \cup {db.next_device_id} |->
                 IF k = db.next_device_id
                 THEN [calibration_cycle |-> device.calibration_cycle,
                       last_calibration_time |-> device.last_calibration_time,
                       status |-> device.status,
                       deployment_area_id |-> device.deployment_area_id]
                 ELSE @[k]],
             !.next_device_id = @ + 1],
     result |-> Some(db.next_device_id)]

(* Variant: a status change also clears the device's calibration time *)
EnvironmentQueries_update_device_status_clears_calibration(db, device_id, status_value) ==
    LET db_device == Get(db.devices, device_id) IN
    IF db_device = Null
    THEN [db |-> db, result |-> Null]
    ELSE [db |-> [db EXCEPT !.devices[device_id].status = status_value,
                            !.devices[device_id].last_calibration_time = Null],
          result |-> Some(device_id)]

EnvironmentQueries_update_device_status(db, device_id, status_value) ==
    LET db_device == Get(db.devices, device_id) IN
    IF db_device = Null
    THEN [db |-> db, result |-> Null]
    ELSE [db |-> [db EXCEPT !.devices[device_id].status = status_value],
          result |-> Some(device_id)]

EnvironmentQueries_delete_monitor_device(db, device_id) ==
    IF Get(db.devices, device_id) = Null
    THEN [db |-> db, result |-> FALSE]
    ELSE [db |-> [db EXCEPT !.devices = Without(@, device_id)], result |-> TRUE]

(* (now - device.last_calibration_time).days: whole days, rounded down *)
DaysSince(instant, last_calibration_time) ==
    (instant - last_calibration_time) \div TicksPerDay

(* device.calibration_cycle or 30 *)
CycleOrDefault(calibration_cycle) ==
    IF calibration_cycle = 0 THEN DefaultCalibrationCycle ELSE calibration_cycle

(* Variant: due only when strictly more than the cycle has elapsed *)
NeedsCalibration_strict(device, instant) ==
    IF device.last_calibration_time = Null
    THEN TRUE
    ELSE DaysSince(instant, Val(device.last_calibration_time))
            > CycleOrDefault(device.calibration_cycle)

(* The loop body of get_devices_needing_calibration *)
NeedsCalibration(device, instant) ==
    IF device.last_calibration_time = Null
    THEN TRUE
    ELSE DaysSince(instant, Val(device.last_calibration_time))
            >= CycleOrDefault(device.calibration_cycle)

(* Variant: the query does not filter on status *)
EnvironmentQueries_get_devices_needing_calibration_any_status(db, instant) ==
    {d \in DOMAIN db.devices : NeedsCalibration(db.devices[d], instant)}

EnvironmentQueries_get_devices_needing_calibration(db, instant) ==
    LET all_devices == {d \in DOMAIN db.devices : db.devices[d].status # "offline"}
    IN {d \in all_devices : NeedsCalibration(db.devices[d], instant)}

(* Variant: the schema admits a calibration cycle of zero *)
MonitorDeviceCreate_valid_nonnegative(body) ==
    body.calibration_cycle # Null => Val(body.calibration_cycle) >= 0

(* calibration_cycle: int = Field(30, ge=1): the validation of the request body,
   before the handler runs *)
MonitorDeviceCreate_valid(body) ==
    body.calibration_cycle # Null => Val(body.calibration_cycle) >= 1

(* POST /monitor-devices; a body the schema rejects is answered 422 and the
   handler is not called *)
create_monitor_device(body) ==
    IF ~MonitorDeviceCreate_valid(body)
    THEN /\ Respond("create_monitor_device", 422, {})
         /\ UNCHANGED <<indices, readings, thresholds_at_create, devices,
                        next_device_id, calibration_records, now>>
    ELSE /\ next_device_id <= MaxDevices
         /\ Commit(EnvironmentQueries_create_monitor_device(DB, MonitorDeviceCreate(body)).db)
         /\ Respond("create_monitor_device", 200, {})
         /\ UNCHANGED <<thresholds_at_create, now>>

(* PUT /monitor-devices/{device_id}/status *)
update_device_status(device_id, status_value) ==
    LET device == EnvironmentQueries_update_device_status(DB, device_id, status_value) IN
    /\ Commit(device.db)
    /\ Respond("update_device_status",
                         IF device.result = Null THEN 404 ELSE 200, {})
    /\ UNCHANGED <<thresholds_at_create, now>>

(* DELETE /monitor-devices/{device_id} *)
delete_monitor_device(device_id) ==
    LET done == EnvironmentQueries_delete_monitor_device(DB, device_id) IN
    /\ Commit(done.db)
    /\ Respond("delete_monitor_device",
                         IF done.result THEN 200 ELSE 404, {})
    /\ UNCHANGED <<thresholds_at_create, now>>

(* The calibration-due query, evaluated at the clock's instant *)
get_devices_needing_calibration ==
    /\ Respond("get_devices_needing_calibration", 200,
                         EnvironmentQueries_get_devices_needing_calibration(DB, now))
    /\ UNCHANGED <<indices, readings, thresholds_at_create, devices,
                   next_device_id, calibration_records, now>>

----------------------------------------------------------------------------
(* Calibration ledger *)

(* Variant: a record of an unknown device is not stored *)
EnvironmentQueries_create_calibration_record_requires_device(db, record) ==
    LET db_record == [device_id |-> record.device_id,
                      calibration_time |-> record.calibration_time]
        device == Get(db.devices, record.device_id)
    IN IF \/ Val(record.record_id) \in DOMAIN db.calibration_records
          \/ device = Null
       THEN [db |-> db, result |-> Null]
       ELSE [db |-> [db EXCEPT !.devices[record.device_id].last_calibration_time =
                                   Some(record.calibration_time),
                               !.calibration_records =
                        [k \in DOMAIN @ \cup {Val(record.record_id)} |->
                            IF k = Val(record.record_id) THEN db_record ELSE @[k]]],
             result |-> record.record_id]

(* Variant: the record is inserted and the device is left as it was *)
EnvironmentQueries_create_calibration_record_ledger_only(db, record) ==
    LET db_record == [device_id |-> record.device_id,
                      calibration_time |-> record.calibration_time]
    IN IF Val(record.record_id) \in DOMAIN db.calibration_records
       THEN [db |-> db, result |-> Null]
       ELSE [db |-> [db EXCEPT !.calibration_records =
                        [k \in DOMAIN @ \cup {Val(record.record_id)} |->
                            IF k = Val(record.record_id) THEN db_record ELSE @[k]]],
             result |-> record.record_id]

(* One unit of work: the device update and the record insert are flushed and
   committed together by the single db.commit() *)
EnvironmentQueries_create_calibration_record(db, record) ==
    LET db_record == [device_id |-> record.device_id,
                      calibration_time |-> record.calibration_time]
        device == Get(db.devices, record.device_id)
        with_device == IF device # Null
                       THEN [db EXCEPT !.devices[record.device_id].last_calibration_time =
                                           Some(record.calibration_time)]
                       ELSE db
    IN IF \/ Val(record.record_id) \in DOMAIN db.calibration_records
          \/ ~StoreAcceptsReference(db.devices, record.device_id)
       THEN [db |-> db, result |-> Null]    \* rejected by the store: rolled back
       ELSE [db |-> [with_device EXCEPT !.calibration_records =
                        [k \in DOMAIN @ \cup {Val(record.record_id)} |->
                            IF k = Val(record.record_id) THEN db_record ELSE @[k]]],
             result |-> record.record_id]

(* Variant: deleting a record clears the calibration time of its device *)
EnvironmentQueries_delete_calibration_record_reverts(db, record_id) ==
    IF Get(db.calibration_records, record_id) = Null
    THEN [db |-> db, result |-> FALSE]
    ELSE [db |-> [db EXCEPT !.calibration_records = Without(@, record_id),
                            !.devices = [d \in DOMAIN @ |->
                                IF d = db.calibration_records[record_id].device_id
                                THEN [@[d] EXCEPT !.last_calibration_time = Null]
                                ELSE @[d]]],
          result |-> TRUE]

EnvironmentQueries_delete_calibration_record(db, record_id) ==
    IF Get(db.calibration_records, record_id) = Null
    THEN [db |-> db, result |-> FALSE]
    ELSE [db |-> [db EXCEPT !.calibration_records = Without(@, record_id)],
          result |-> TRUE]

(* POST /calibration-records; an omitted record_id is generated *)
create_calibration_record(body) ==
    \E generated \in RecordIds :
        LET record == [body EXCEPT !.record_id = IF @ = Null THEN Some(generated) ELSE @]
            created == EnvironmentQueries_create_calibration_record(DB, record)
        IN
        /\ (body.record_id # Null => generated = Val(body.record_id))
        /\ (body.record_id = Null => generated \notin DOMAIN calibration_records)
        /\ Commit(created.db)
        /\ Respond("create_calibration_record",
                             IF created.result = Null THEN 500 ELSE 200, {})
        /\ UNCHANGED <<thresholds_at_create, now>>

(* DELETE /calibration-records/{record_id} *)
delete_calibration_record(record_id) ==
    LET done == EnvironmentQueries_delete_calibration_record(DB, record_id) IN
    /\ Commit(done.db)
    /\ Respond("delete_calibration_record",
                         IF done.result THEN 200 ELSE 404, {})
    /\ UNCHANGED <<thresholds_at_create, now>>

(* Passage of time *)
Tick ==
    /\ now < MaxNow
    /\ now' = now + 1
    /\ UNCHANGED <<indices, readings, thresholds_at_create, devices,
                   next_device_id, calibration_records, response,
                   sessions, index_versions>>

----------------------------------------------------------------------------
(* Reports *)

(* The area registry, kept outside this subsystem and only read by it: area 1
   is of the core-protection category, area 2 is not *)
AreaIds == {1, 2}
Areas == [a \in AreaIds |-> [type |-> IF a = 1 THEN "core_protection" ELSE "buffer"]]

(* The sequences that list every element of S once, in an order in which no
   element comes after one it must precede *)
Orderings(S, Precedes(_, _)) ==
    {f \in [1..Cardinality(S) -> S] :
        /\ \A i, j \in DOMAIN f : i # j => f[i] # f[j]
        /\ \A i, j \in DOMAIN f : i < j => ~Precedes(f[j], f[i])}

(* start_time = now - timedelta(days=days) *)
WindowStart(instant, days) == instant - days * TicksPerDay

QualifiedGrades == {"excellent", "good"}

(* Variant: the rate is cut to whole percent *)
QualifiedRate_whole_percent(qualified, total) ==
    IF total = 0 THEN 0 ELSE ((qualified * 100) \div total) * 100

(* round(qualified * 100.0 / total, 2) if total else 0.0, in hundredths of a
   percent: the nearest hundredth (no exact half occurs for a total below 32) *)
QualifiedRate(qualified, total) ==
    IF total = 0 THEN 0
    ELSE (2 * qualified * 10000 + total) \div (2 * total)

(* The grouped select: devices joined to their area, outer-joined to their
   readings collected at or after start_time; one row per joined device *)
EnvironmentQueries_get_device_data_quality_rate(db, instant, days) ==
    LET start_time == WindowStart(instant, days)
        matched(d) == {r \in DOMAIN db.readings :
                          /\ db.readings[r].device_id = d
                          /\ db.readings[r].collect_time >= start_time}
        with_area == {d \in DOMAIN db.devices :
                         /\ db.devices[d].deployment_area_id # Null
                         /\ Val(db.devices[d].deployment_area_id) \in DOMAIN Areas}
        row(d) == LET total == Cardinality(matched(d))
                      qualified == Cardinality({r \in matched(d) :
                                      db.readings[r].data_quality \in QualifiedGrades})
                  IN [device_id |-> d, total_data_count |-> total,
                      qualified_count |-> qualified,
                      qualified_rate |-> QualifiedRate(qualified, total)]
    IN {row(d) : d \in with_area}

(* result.sort(key=qualified_rate, reverse=True): rows of equal rate stay in
   the order the database returned them, which the query does not fix *)
HigherRate(a, b) == a.qualified_rate > b.qualified_rate

(* GET /reports/device-quality-rate *)
get_device_quality_rate_report(days) ==
    /\ \E result \in Orderings(EnvironmentQueries_get_device_data_quality_rate(DB, now, days),
                               HigherRate) :
          Respond("get_device_quality_rate_report", 200, result)
    /\ UNCHANGED <<indices, readings, thresholds_at_create, devices,
                   next_device_id, calibration_records, now>>

(* DATEDIFF(day, start, end): the number of day boundaries between the two
   instants, whatever the time of day of either *)
DateDiffDay(start, end) == (end \div TicksPerDay) - (start \div TicksPerDay)

(* The select: readings joined to their device and their indicator, collected at
   or after start_time, of a device never calibrated or with more than
   calibration_cycle day boundaries since its last calibration *)
EnvironmentQueries_get_overdue_calibration_devices_data(db, instant, days) ==
    LET start_time == WindowStart(instant, days)
        overdue(device) ==
            \/ device.last_calibration_time = Null
            \/ DateDiffDay(Val(device.last_calibration_time), instant)
                  > device.calibration_cycle
    IN {[data_id |-> r, device_id |-> db.readings[r].device_id,
         collect_time |-> db.readings[r].collect_time] :
            r \in {r \in DOMAIN db.readings :
                      /\ db.readings[r].device_id \in DOMAIN db.devices
                      /\ db.readings[r].index_id \in DOMAIN db.indices
                      /\ db.readings[r].collect_time >= start_time
                      /\ overdue(db.devices[db.readings[r].device_id])}}

(* order_by(device id, desc(collect_time)) *)
DeviceThenNewest(a, b) ==
    \/ a.device_id < b.device_id
    \/ a.device_id = b.device_id /\ a.collect_time > b.collect_time

(* GET /reports/overdue-calibration-data *)
get_overdue_calibration_data_report(days) ==
    /\ \E result \in Orderings(
              EnvironmentQueries_get_overdue_calibration_devices_data(DB, now, days),
              DeviceThenNewest) :
          Respond("get_overdue_calibration_data_report", 200, result)
    /\ UNCHANGED <<indices, readings, thresholds_at_create, devices,
                   next_device_id, calibration_records, now>>

(* The select: readings joined to their indicator, their device and their
   area, of a core-protection area, of an indicator of the given name, flagged
   abnormal, collected at or after start_time *)
EnvironmentQueries_query_core_protection_abnormal_data(db, index_name, instant, days) ==
    LET start_time == WindowStart(instant, days)
    IN {[data_id |-> r, device_id |-> db.readings[r].device_id,
         collect_time |-> db.readings[r].collect_time] :
            r \in {r \in DOMAIN db.readings :
                      /\ db.readings[r].index_id \in DOMAIN db.indices
                      /\ db.readings[r].device_id \in DOMAIN db.devices
                      /\ db.readings[r].area_id \in DOMAIN Areas
                      /\ Areas[db.readings[r].area_id].type = "core_protection"
                      /\ db.indices[db.readings[r].index_id].index_name = index_name
                      /\ db.readings[r].is_abnormal = 1
                      /\ db.readings[r].collect_time >= start_time}}

(* order_by(desc(collect_time)) *)
Newest(a, b) == a.collect_time > b.collect_time

(* GET /reports/core-protection-abnormal *)
get_core_protection_abnormal_report(index_name, days) ==
    /\ \E result \in Orderings(
              EnvironmentQueries_query_core_protection_abnormal_data(
                  DB, index_name, now, days),
              Newest) :
          Respond("get_core_protection_abnormal_report", 200, result)
    /\ UNCHANGED <<indices, readings, thresholds_at_create, devices,
                   next_device_id, calibration_records, now>>

----------------------------------------------------------------------------
(* Request bodies *)

IndexBodies == [index_id : IndexIds, index_name : {"PM25"},
                upper_threshold : Uppers, lower_threshold : Lowers]
UpdatePayloads == [index_name : {Null},
                   upper_threshold : {Null} \cup {Some(u) : u \in Uppers},
                   lower_threshold : {Null} \cup {Some(l) : l \in Lowers}]
DataBodies == [data_id : {Null} \cup {Some(d) : d \in DataIds},
               index_id : IndexIds,
               monitor_value : Values,
               audit_status : {Null, Some("Audited")},
               device_id : {1}, collect_time : {0}, area_id : {1},
               data_quality : {Null}]
DeviceBodies == [calibration_cycle : {Null} \cup {Some(c) : c \in Cycles},
                 last_calibration_time : {Null} \cup {Some(t) : t \in Times},
                 status : {Null} \cup {Some(s) : s \in DeviceStatuses},
                 deployment_area_id : {Some(1)}]
RecordBodies == [record_id : {Null} \cup {Some(r) : r \in RecordIds},
                 device_id : DeviceRefs,
                 calibration_time : Times]

----------------------------------------------------------------------------
(* The store after construction: every table empty *)

Init ==
    /\ indices = <<>>
    /\ readings = <<>>
    /\ thresholds_at_create = <<>>
    /\ devices = <<>>
    /\ next_device_id = 1
    /\ calibration_records = <<>>
    /\ now = 0
    /\ response = Reply("none", 0, {})
    /\ sessions = [s \in SessionIds |-> Idle]
    /\ index_versions = {}

FewAuditStatuses == {"Audited"}

(* Ingest: the indicator registry and the readings classified against it *)
NextData ==
    \/ \E index \in IndexBodies : create_monitor_index(index)
    \/ \E i \in IndexIds, payload \in UpdatePayloads : update_monitor_index(i, payload)
    \/ \E i \in IndexIds : delete_monitor_index(i)
    \/ \E body \in DataBodies : create_environment_data(body)
    \/ \E d \in DataIds, a \in FewAuditStatuses, r \in ReasonArgs :
          audit_environment_data(d, a, r)
    \/ \E d \in DataIds : delete_environment_data(d)

SpecData == Init /\ [][NextData]_vars

(* The audit workflow over readings of one indicator *)
AuditIndexBodies == {[index_id |-> "I1", index_name |-> "PM25",
                      upper_threshold |-> 1, lower_threshold |-> 1]}
AuditDataBodies == [data_id : {Some(d) : d \in DataIds},
                    index_id : IndexIds,
                    monitor_value : Values,
                    audit_status : {Null},
                    device_id : {1}, collect_time : {0}, area_id : {1},
                    data_quality : {Null}]

NextAudit ==
    \/ \E index \in AuditIndexBodies : create_monitor_index(index)
    \/ \E body \in AuditDataBodies : create_environment_data(body)
    \/ \E d \in DataIds, a \in AuditStatuses, r \in ReasonArgs :
          audit_environment_data(d, a, r)
    \/ \E d \in DataIds : delete_environment_data(d)

SpecAudit == Init /\ [][NextAudit]_vars

(* The device registry, the calibration ledger and the calibration-due query *)
DeviceRecordBodies == [record_id : {Null} \cup {Some(r) : r \in RecordIds},
                       device_id : DeviceRefs,
                       calibration_time : {0, now}]

NextDevice ==
    \/ \E body \in DeviceBodies : create_monitor_device(body)
    \/ \E d \in DeviceRefs, s \in DeviceStatuses : update_device_status(d, s)
    \/ \E d \in DeviceRefs : delete_monitor_device(d)
    \/ get_devices_needing_calibration
    \/ \E body \in DeviceRecordBodies : create_calibration_record(body)
    \/ \E r \in RecordIds : delete_calibration_record(r)
    \/ Tick

SpecDevice == Init /\ [][NextDevice]_vars

----------------------------------------------------------------------------
(* The whole core, every handler interleaved, on a few inputs *)

FewIndexBodies == {[index_id |-> "I1", index_name |-> "PM25",
                    upper_threshold |-> 2, lower_threshold |-> 1]}
FewUpdatePayloads == {[index_name |-> Null, upper_threshold |-> Some(1),
                       lower_threshold |-> Null],
                      [index_name |-> Null, upper_threshold |-> Some(2),
                       lower_threshold |-> Null]}
FewDataBodies == {[data_id |-> Some("d1"), index_id |-> "I1", monitor_value |-> v,
                   audit_status |-> Null, device_id |-> 1, collect_time |-> 0,
                   area_id |-> 1, data_quality |-> Null] : v \in {1, 2}}
FewDataIds == {"d1"}
FewDeviceRefs == {1}
FewDeviceBodies == {[calibration_cycle |-> Some(1), last_calibration_time |-> Null,
                     status |-> Null, deployment_area_id |-> Some(1)]}
FewRecordBodies == {[record_id |-> Some("c1"), device_id |-> d, calibration_time |-> 0]
                        : d \in FewDeviceRefs}

----------------------------------------------------------------------------
(* The device quality rate report over devices with and without a deployment
   area and readings inside and outside the window *)
ReportDays == {1}
QualityDataIds == {"d1", "d2", "d3"}
QualityDeviceBodies == [calibration_cycle : {Null}, last_calibration_time : {Null},
                        status : {Null}, deployment_area_id : {Null, Some(1)}]
QualityDataBodies == [data_id : {Some(d) : d \in QualityDataIds},
                      index_id : IndexIds, monitor_value : {1}, audit_status : {Null},
                      device_id : {1, 2}, collect_time : {0, MaxNow}, area_id : {1},
                      data_quality : {Null, Some("good")}]

NextQuality ==
    \/ \E body \in QualityDeviceBodies : create_monitor_device(body)
    \/ \E d \in FewDeviceRefs : delete_monitor_device(d)
    \/ \E body \in QualityDataBodies : create_environment_data(body)
    \/ \E d \in QualityDataIds : delete_environment_data(d)
    \/ \E days \in ReportDays : get_device_quality_rate_report(days)
    \/ Tick

SpecQuality == Init /\ [][NextQuality]_vars

----------------------------------------------------------------------------
(* The overdue-calibration cross-reference next to the calibration-due query,
   over devices last calibrated at different times of day *)
OverdueDeviceBodies == [calibration_cycle : {Some(1)},
                        last_calibration_time : {Null, Some(0 - 1), Some(0), Some(1)},
                        status : {Null, Some("offline")},
                        deployment_area_id : {Some(1)}]
OverdueDataBodies == [data_id : {Some(d) : d \in DataIds},
                      index_id : IndexIds, monitor_value : {1}, audit_status : {Null},
                      device_id : {1, 2}, collect_time : {0, MaxNow}, area_id : {1},
                      data_quality : {Null}]

NextOverdue ==
    \/ \E index \in AuditIndexBodies : create_monitor_index(index)
    \/ \E i \in IndexIds : delete_monitor_index(i)
    \/ \E body \in OverdueDeviceBodies : create_monitor_device(body)
    \/ \E body \in OverdueDataBodies : create_environment_data(body)
    \/ \E days \in ReportDays : get_overdue_calibration_data_report(days)
    \/ get_devices_needing_calibration
    \/ Tick

SpecOverdue == Init /\ [][NextOverdue]_vars

----------------------------------------------------------------------------
(* The protected-area abnormal report over readings of both kinds of area,
   above and within the thresholds, with the device stored or deleted *)
IndexNames == {"PM25", "NO2"}
CoreUpdatePayloads == {[index_name |-> Some("NO2"), upper_threshold |-> Null,
                        lower_threshold |-> Null]}
CoreDataBodies == [data_id : {Some(d) : d \in DataIds},
                   index_id : IndexIds, monitor_value : Values, audit_status : {Null},
                   device_id : {1}, collect_time : {0, MaxNow}, area_id : AreaIds,
                   data_quality : {Null}]

NextCore ==
    \/ \E index \in AuditIndexBodies : create_monitor_index(index)
    \/ \E i \in IndexIds, payload \in CoreUpdatePayloads : update_monitor_index(i, payload)
    \/ \E body \in FewDeviceBodies : create_monitor_device(body)
    \/ \E d \in FewDeviceRefs : delete_monitor_device(d)
    \/ \E body \in CoreDataBodies : create_environment_data(body)
    \/ \E name \in IndexNames, days \in ReportDays :
          get_core_protection_abnormal_report(name, days)
    \/ Tick

SpecCore == Init /\ [][NextCore]_vars

Next ==
    \/ \E index \in FewIndexBodies : create_monitor_index(index)
    \/ \E i \in IndexIds, payload \in FewUpdatePayloads : update_monitor_index(i, payload)
    \/ \E i \in IndexIds : delete_monitor_index(i)
    \/ \E body \in FewDataBodies : create_environment_data(body)
    \/ \E d \in FewDataIds, a \in FewAuditStatuses, r \in ReasonArgs :
          audit_environment_data(d, a, r)
    \/ \E d \in FewDataIds : delete_environment_data(d)
    \/ \E body \in FewDeviceBodies : create_monitor_device(body)
    \/ \E d \in FewDeviceRefs, s \in DeviceStatuses : update_device_status(d, s)
    \/ \E d \in FewDeviceRefs : delete_monitor_device(d)
    \/ get_devices_needing_calibration
    \/ \E body \in FewRecordBodies : create_calibration_record(body)
    \/ \E r \in RecordIds : delete_calibration_record(r)
    \/ Tick

Spec == Init /\ [][Next]_vars

----------------------------------------------------------------------------
(* The whole core at one instant, with the three reports and with calibration
   records of stored and of unknown devices *)
FrameRecordBodies == [record_id : {Some(r) : r \in RecordIds},
                      device_id : DeviceRefs,
                      calibration_time : {0, 1}]

NextFrame ==
    \/ \E index \in FewIndexBodies : create_monitor_index(index)
    \/ \E i \in IndexIds, payload \in FewUpdatePayloads : update_monitor_index(i, payload)
    \/ \E i \in IndexIds : delete_monitor_index(i)
    \/ \E body \in FewDataBodies : create_environment_data(body)
    \/ \E d \in FewDataIds, a \in FewAuditStatuses, r \in ReasonArgs :
          audit_environment_data(d, a, r)
    \/ \E d \in FewDataIds : delete_environment_data(d)
    \/ \E body \in FewDeviceBodies : create_monitor_device(body)
    \/ \E d \in FewDeviceRefs, s \in DeviceStatuses : update_device_status(d, s)
    \/ \E d \in FewDeviceRefs : delete_monitor_device(d)
    \/ get_devices_needing_calibration
    \/ \E r \in RecordIds : delete_calibration_record(r)
    \/ \E body \in FrameRecordBodies : create_calibration_record(body)
    \/ \E days \in ReportDays : get_device_quality_rate_report(days)
    \/ \E days \in ReportDays : get_overdue_calibration_data_report(days)
    \/ \E days \in ReportDays : get_core_protection_abnormal_report("PM25", days)

SpecFrame == Init /\ [][NextFrame]_vars

----------------------------------------------------------------------------
(* The device registry under request bodies with valid, omitted and
   out-of-range calibration cycles *)
SubmittedCycles == {0 - 1, 0, 1, 2}
CycleDeviceBodies == [calibration_cycle : {Null} \cup {Some(c) : c \in SubmittedCycles},
                      last_calibration_time : {Null, Some(0)},
                      status : {Null},
                      deployment_area_id : {Some(1)}]

NextCycle ==
    \/ \E body \in CycleDeviceBodies : create_monitor_device(body)
    \/ \E d \in DeviceRefs, s \in DeviceStatuses : update_device_status(d, s)
    \/ \E d \in DeviceRefs : delete_monitor_device(d)
    \/ get_devices_needing_calibration
    \/ \E body \in DeviceRecordBodies : create_calibration_record(body)
    \/ \E r \in RecordIds : delete_calibration_record(r)
    \/ Tick

SpecCycle == Init /\ [][NextCycle]_vars

----------------------------------------------------------------------------
(* Ingest against indicators whose upper threshold may lie below the lower one *)
InvertedUppers == {1, 3}
InvertedLowers == {1, 3}
InvertedValues == {1, 2, 3}
InvertedIndexBodies == [index_id : IndexIds, index_name : {"PM25"},
                        upper_threshold : InvertedUppers,
                        lower_threshold : InvertedLowers]
InvertedUpdatePayloads == [index_name : {Null},
                           upper_threshold : {Null} \cup {Some(u) : u \in InvertedUppers},
                           lower_threshold : {Null} \cup {Some(l) : l \in InvertedLowers}]
InvertedDataBodies == [data_id : {Some(d) : d \in DataIds},
                       index_id : IndexIds, monitor_value : InvertedValues,
                       audit_status : {Null},
                       device_id : {1}, collect_time : {0}, area_id : {1},
                       data_quality : {Null}]

NextInverted ==
    \/ \E index \in InvertedIndexBodies : create_monitor_index(index)
    \/ \E i \in IndexIds, payload \in InvertedUpdatePayloads :
          update_monitor_index(i, payload)
    \/ \E i \in IndexIds : delete_monitor_index(i)
    \/ \E body \in InvertedDataBodies : create_environment_data(body)
    \/ \E d \in DataIds : delete_environment_data(d)

SpecInverted == Init /\ [][NextInverted]_vars

----------------------------------------------------------------------------
(* Requests in flight.  Each request runs in its own Session (db.py get_db):
   its queries read the committed store, its writes stay in the Session until
   db.commit() flushes and commits them in one transaction. *)

Begin(s, op, body, loaded) ==
    sessions' = [sessions EXCEPT ![s] =
                    [pc |-> "loaded", op |-> op, body |-> body, loaded |-> loaded]]

End(s) == sessions' = [sessions EXCEPT ![s] = Idle]

(* The UPDATE a flush emits for a loaded row: the unit of work sets the columns
   whose value in the Session differs from the value it loaded, and no others *)
Flush(committed, loaded, current) ==
    [column \in DOMAIN committed |->
        IF current[column] # loaded[column] THEN current[column]
        ELSE committed[column]]

(* Variant: the lower threshold is read again when the row is built *)
MonitorIndexRead_twice(loaded, committed) ==
    IF loaded # Null /\ committed # Null
    THEN Some([Val(loaded) EXCEPT !.lower_threshold = Val(committed).lower_threshold])
    ELSE loaded

(* The monitor_index the classification reads: the object db.get returned *)
MonitorIndexRead(loaded, committed) == loaded

(* create_environment_data, in three steps: the handler's existence check *)
txn_create_environment_data_check(s, body) ==
    /\ sessions[s].pc = "idle"
    /\ IF Get(readings, Val(body.data_id)) # Null
       THEN /\ response' = Reply("create_environment_data", 400, {})
            /\ UNCHANGED sessions
       ELSE /\ sessions' = [sessions EXCEPT ![s] =
                   [pc |-> "checked", op |-> "create_environment_data",
                    body |-> EnvironmentDataCreate(body), loaded |-> Null]]
            /\ UNCHANGED response
    /\ UNCHANGED <<indices, readings, thresholds_at_create, devices, next_device_id,
                   calibration_records, now, index_versions>>

(* ... monitor_index = db.get(...) *)
txn_create_environment_data_get(s) ==
    /\ sessions[s].pc = "checked"
    /\ sessions[s].op = "create_environment_data"
    /\ sessions' = [sessions EXCEPT ![s].pc = "loaded",
                                    ![s].loaded = Get(indices, sessions[s].body.index_id)]
    /\ UNCHANGED <<indices, readings, thresholds_at_create, devices, next_device_id,
                   calibration_records, now, response, index_versions>>

(* ... the classification, db.add and db.commit; a data_id inserted meanwhile by
   another request violates the primary key and the transaction is rolled back *)
txn_create_environment_data_commit(s) ==
    LET data == sessions[s].body
        data_id == Val(data.data_id)
        monitor_index == MonitorIndexRead(sessions[s].loaded,
                                          Get(indices, data.index_id))
        db_data == EnvironmentDataRow(data, Classify(monitor_index, data.monitor_value))
    IN
    /\ sessions[s].pc = "loaded"
    /\ sessions[s].op = "create_environment_data"
    /\ IF data_id \in DOMAIN readings
       THEN /\ response' = Reply("create_environment_data", 500, {})
            /\ UNCHANGED <<readings, thresholds_at_create>>
       ELSE /\ readings' = [k \in DOMAIN readings \cup {data_id} |->
                               IF k = data_id THEN db_data ELSE readings[k]]
            /\ thresholds_at_create' =
                  [k \in DOMAIN thresholds_at_create \cup {data_id} |->
                      IF k = data_id THEN sessions[s].loaded
                      ELSE thresholds_at_create[k]]
            /\ response' = Reply("create_environment_data", 200, {})
    /\ End(s)
    /\ UNCHANGED <<indices, devices, next_device_id, calibration_records, now,
                   index_versions>>

(* update_monitor_index, in two steps: db_index = db.get(...) *)
txn_update_monitor_index_get(s, index_id, payload) ==
    /\ sessions[s].pc = "idle"
    /\ IF Get(indices, index_id) = Null
       THEN /\ response' = Reply("update_monitor_index", 404, {})
            /\ UNCHANGED sessions
       ELSE /\ Begin(s, "update_monitor_index",
                     [index_id |-> index_id, update_data |-> payload],
                     Get(indices, index_id))
            /\ UNCHANGED response
    /\ UNCHANGED <<indices, readings, thresholds_at_create, devices, next_device_id,
                   calibration_records, now, index_versions>>

(* ... the setattr loop and db.commit *)
txn_update_monitor_index_commit(s) ==
    LET index_id == sessions[s].body.index_id
        loaded == Val(sessions[s].loaded)
        current == ApplyUpdateData(loaded, sessions[s].body.update_data)
        written == Flush(indices[index_id], loaded, current)
    IN
    /\ sessions[s].pc = "loaded"
    /\ sessions[s].op = "update_monitor_index"
    /\ indices' = [indices EXCEPT ![index_id] = written]
    /\ index_versions' = index_versions \cup {written}
    /\ response' = Reply("update_monitor_index", 200, {})
    /\ End(s)
    /\ UNCHANGED <<readings, thresholds_at_create, devices, next_device_id,
                   calibration_records, now>>

TxnIndexRow == [index_name |-> "PM25", upper_threshold |-> 1, lower_threshold |-> 1]
TxnUpdatePayloads == {[index_name |-> Null, upper_threshold |-> Some(3),
                       lower_threshold |-> Some(3)],
                      [index_name |-> Null, upper_threshold |-> Some(1),
                       lower_threshold |-> Null]}
TxnDataBodies == [data_id : {Some("d1")}, index_id : IndexIds,
                  monitor_value : Values, audit_status : {Null},
                  device_id : {1}, collect_time : {0}, area_id : {1},
                  data_quality : {Null}]

(* The store once create_monitor_index has stored indicator I1 *)
InitTxnData ==
    /\ indices = [i \in IndexIds |-> TxnIndexRow]
    /\ readings = <<>>
    /\ thresholds_at_create = <<>>
    /\ devices = <<>>
    /\ next_device_id = 1
    /\ calibration_records = <<>>
    /\ now = 0
    /\ response = Reply("create_monitor_index", 200, {})
    /\ sessions = [s \in SessionIds |-> Idle]
    /\ index_versions = {TxnIndexRow}

NextTxnData ==
    \/ \E s \in SessionIds, body \in TxnDataBodies :
          txn_create_environment_data_check(s, body)
    \/ \E s \in SessionIds : txn_create_environment_data_get(s)
    \/ \E s \in SessionIds : txn_create_environment_data_commit(s)
    \/ \E s \in SessionIds, i \in IndexIds, payload \in TxnUpdatePayloads :
          txn_update_monitor_index_get(s, i, payload)
    \/ \E s \in SessionIds : txn_update_monitor_index_commit(s)

SpecTxnData == InitTxnData /\ [][NextTxnData]_vars

----------------------------------------------------------------------------
(* Variant: the insert replaces a row that holds the key *)
PrimaryKeyFree_replacing(table, key) == TRUE

(* The primary key of the table (index_id, primary_key=True): an INSERT of a
   key that a committed row holds is refused by the database *)
PrimaryKeyFree(table, key) == key \notin DOMAIN table

(* create_monitor_index, in two steps: the handler's existence check *)
txn_create_monitor_index_check(s, index) ==
    /\ sessions[s].pc = "idle"
    /\ IF Get(indices, index.index_id) # Null
       THEN /\ response' = Reply("create_monitor_index", 400, {})
            /\ UNCHANGED sessions
       ELSE /\ sessions' = [sessions EXCEPT ![s] =
                   [pc |-> "checked", op |-> "create_monitor_index",
                    body |-> index, loaded |-> Null]]
            /\ UNCHANGED response
    /\ UNCHANGED <<indices, readings, thresholds_at_create, devices, next_device_id,
                   calibration_records, now, index_versions>>

(* ... db.add and db.commit; an index_id inserted meanwhile by another request
   violates the primary key, the transaction is rolled back and the error is
   not handled *)
txn_create_monitor_index_commit(s) ==
    LET index == sessions[s].body
        created == EnvironmentQueries_create_monitor_index(DB, index).db
    IN
    /\ sessions[s].pc = "checked"
    /\ sessions[s].op = "create_monitor_index"
    /\ IF PrimaryKeyFree(indices, index.index_id)
       THEN /\ indices' = created.indices
            /\ index_versions' = index_versions \cup {created.indices[index.index_id]}
            /\ response' = Reply("create_monitor_index", 200, {})
       ELSE /\ response' = Reply("create_monitor_index", 500, {})
            /\ UNCHANGED <<indices, index_versions>>
    /\ End(s)
    /\ UNCHANGED <<readings, thresholds_at_create, devices, next_device_id,
                   calibration_records, now>>

TxnCreateIndexBodies == [index_id : IndexIds, index_name : {"PM25"},
                         upper_threshold : Uppers, lower_threshold : {1}]
TxnCreateDataBodies == [data_id : {Some("d1")}, index_id : IndexIds,
                        monitor_value : {1, 2}, audit_status : {Null},
                        device_id : {1}, collect_time : {0}, area_id : {1, 2},
                        data_quality : {Null}]

NextTxnCreate ==
    \/ \E s \in SessionIds, index \in TxnCreateIndexBodies :
          txn_create_monitor_index_check(s, index)
    \/ \E s \in SessionIds : txn_create_monitor_index_commit(s)
    \/ \E s \in SessionIds, body \in TxnCreateDataBodies :
          txn_create_environment_data_check(s, body)
    \/ \E s \in SessionIds : txn_create_environment_data_get(s)
    \/ \E s \in SessionIds : txn_create_environment_data_commit(s)

SpecTxnCreate == Init /\ [][NextTxnCreate]_vars

----------------------------------------------------------------------------
(* create_calibration_record, in two steps: the record is built and
   device = db.get(...) *)
txn_create_calibration_record_get(s, record) ==
    /\ sessions[s].pc = "idle"
    /\ Begin(s, "create_calibration_record", record, Get(devices, record.device_id))
    /\ UNCHANGED <<indices, readings, thresholds_at_create, devices, next_device_id,
                   calibration_records, now, response, index_versions>>

(* ... the assignment to device.last_calibration_time, db.add and db.commit: the
   INSERT and the UPDATE are one transaction, and the UPDATE carries
   last_calibration_time only when the assigned value differs from the loaded
   one (updated_at always differs); a record_id inserted meanwhile violates the
   primary key and the transaction is rolled back *)
txn_create_calibration_record_commit(s) ==
    LET record == sessions[s].body
        record_id == Val(record.record_id)
        device_id == record.device_id
        db_record == [device_id |-> device_id,
                      calibration_time |-> record.calibration_time]
    IN
    /\ sessions[s].pc = "loaded"
    /\ sessions[s].op = "create_calibration_record"
    /\ IF record_id \in DOMAIN calibration_records
       THEN /\ response' = Reply("create_calibration_record", 500, {})
            /\ UNCHANGED <<calibration_records, devices>>
       ELSE /\ calibration_records' =
                  [k \in DOMAIN calibration_records \cup {record_id} |->
                      IF k = record_id THEN db_record ELSE calibration_records[k]]
            /\ devices' =
                  IF sessions[s].loaded # Null
                  THEN LET loaded == Val(sessions[s].loaded) IN
                       [devices EXCEPT ![device_id] =
                           Flush(@, loaded,
                                 [loaded EXCEPT !.last_calibration_time =
                                                    Some(record.calibration_time)])]
                  ELSE devices
            /\ response' = Reply("create_calibration_record", 200, {})
    /\ End(s)
    /\ UNCHANGED <<indices, readings, thresholds_at_create, next_device_id, now,
                   index_versions>>

TxnRecordIds == {"c1", "c2"}
TxnTimes == {0, 1}
TxnRecordBodies == [record_id : {Some(r) : r \in TxnRecordIds},
                    device_id : DeviceRefs,
                    calibration_time : TxnTimes]

(* The store once create_monitor_device has stored device 1 *)
InitTxnCalibration ==
    /\ indices = <<>>
    /\ readings = <<>>
    /\ thresholds_at_create = <<>>
    /\ \E last \in {Null, Some(0)} :
          devices = [d \in {1} |-> [calibration_cycle |-> 1,
                                    last_calibration_time |-> last,
                                    status |-> "normal",
                                    deployment_area_id |-> Some(1)]]
    /\ next_device_id = 2
    /\ calibration_records = <<>>
    /\ now = 0
    /\ response = Reply("create_monitor_device", 200, {})
    /\ sessions = [s \in SessionIds |-> Idle]
    /\ index_versions = {}

NextTxnCalibration ==
    \/ \E s \in SessionIds, record \in TxnRecordBodies :
          txn_create_calibration_record_get(s, record)
    \/ \E s \in SessionIds : txn_create_calibration_record_commit(s)
    \/ \E r \in TxnRecordIds : delete_calibration_record(r)

SpecTxnCalibration == InitTxnCalibration /\ [][NextTxnCalibration]_vars

----------------------------------------------------------------------------
(* Properties *)

Created(d) == d \notin DOMAIN readings /\ d \in DOMAIN readings'

Outside(value, upper, lower) == value > upper \/ value < lower

(* C1: a reading created while its indicator exists is flagged abnormal exactly
   when its value is above the indicator's upper or below its lower threshold
   (a value equal to a threshold is normal); an abnormal reading's reason names
   the violated bound, the value and that threshold; a normal one has no reason *)
C1_ClassifiedAtCreation ==
    [][\A d \in DataIds :
          (Created(d) /\ readings'[d].index_id \in DOMAIN indices) =>
              LET r == readings'[d]
                  i == indices[r.index_id]
                  v == r.monitor_value
              IN /\ (r.is_abnormal = 1) <=> Outside(v, i.upper_threshold, i.lower_threshold)
                 /\ r.is_abnormal \in {0, 1}
                 /\ r.is_abnormal = 0 => r.abnormal_reason = Null
                 /\ r.is_abnormal = 1 =>
                       \/ /\ v > i.upper_threshold
                          /\ r.abnormal_reason =
                                Some(<<"exceeds_upper_threshold", v, i.upper_threshold>>)
                       \/ /\ v < i.lower_threshold
                          /\ r.abnormal_reason =
                                Some(<<"below_lower_threshold", v, i.lower_threshold>>)
    ]_vars

C1_Witness ==
    /\ response = Reply("create_environment_data", 200, {})
    /\ \E d \in DOMAIN readings :
          /\ thresholds_at_create[d] # Null
          /\ readings[d].is_abnormal = 1
          /\ readings[d].monitor_value > Val(thresholds_at_create[d]).upper_threshold
    /\ \E d \in DOMAIN readings :
          /\ thresholds_at_create[d] # Null
          /\ readings[d].is_abnormal = 0
          /\ readings[d].monitor_value = Val(thresholds_at_create[d]).upper_threshold

(* C2: in every state each stored reading's flag is the classification of its
   value against the thresholds its indicator had when the reading was created,
   and a step of update_monitor_index leaves the flag and the reason of every
   stored reading as they were *)
C2_FlagMatchesCreationThresholds ==
    \A d \in DOMAIN readings :
        thresholds_at_create[d] # Null =>
            (readings[d].is_abnormal = 1 <=>
                Outside(readings[d].monitor_value,
                        Val(thresholds_at_create[d]).upper_threshold,
                        Val(thresholds_at_create[d]).lower_threshold))

C2_NoRetroactiveReclassification ==
    /\ []C2_FlagMatchesCreationThresholds
    /\ [][response'.op = "update_monitor_index" =>
          \A i \in IndexIds, payload \in UpdatePayloads :
             update_monitor_index(i, payload) =>
                 /\ DOMAIN readings' = DOMAIN readings
                 /\ \A d \in DOMAIN readings :
                       /\ readings'[d].is_abnormal = readings[d].is_abnormal
                       /\ readings'[d].abnormal_reason = readings[d].abnormal_reason
       ]_vars

C2_Witness ==
    /\ response = Reply("update_monitor_index", 200, {})
    /\ \E d \in DOMAIN readings :
          /\ readings[d].index_id \in DOMAIN indices
          /\ readings[d].is_abnormal = 0
          /\ readings[d].monitor_value > indices[readings[d].index_id].upper_threshold

(* C4: an audit of a stored reading leaves that reading's abnormal flag, value
   and indicator as they were, leaves its reason as it was when no reason is
   supplied, and changes no other reading *)
C4_AuditFrame ==
    [][response'.op = "audit_environment_data" =>
       \A d \in DataIds, a \in AuditStatuses, r \in ReasonArgs :
          (d \in DOMAIN readings /\ audit_environment_data(d, a, r)) =>
              /\ DOMAIN readings' = DOMAIN readings
              /\ readings'[d].is_abnormal = readings[d].is_abnormal
              /\ readings'[d].monitor_value = readings[d].monitor_value
              /\ readings'[d].index_id = readings[d].index_id
              /\ (r = Null => readings'[d].abnormal_reason = readings[d].abnormal_reason)
              /\ \A e \in DOMAIN readings \ {d} : readings'[e] = readings[e]
    ]_vars

C4_Witness ==
    /\ response = Reply("audit_environment_data", 200, {})
    /\ \E d, e \in DOMAIN readings :
          /\ d # e
          /\ readings[d].is_abnormal = 1
          /\ readings[d].audit_status = "Audited"
          /\ readings[e].audit_status = "Unaudited"

(* C5: after an audit of a stored reading the reason is the supplied reason,
   whatever the status and the flag; with no reason supplied it is the reason
   stored before the call *)
C5_AuditReason ==
    [][response'.op = "audit_environment_data" =>
       \A d \in DataIds, a \in AuditStatuses, r \in ReasonArgs :
          (d \in DOMAIN readings /\ audit_environment_data(d, a, r)) =>
              readings'[d].abnormal_reason =
                  IF r = Null THEN readings[d].abnormal_reason ELSE r
    ]_vars

C5_Witness ==
    /\ response = Reply("audit_environment_data", 200, {})
    /\ \E d \in DOMAIN readings :
          /\ readings[d].is_abnormal = 1
          /\ readings[d].audit_status = "Audited"
          /\ readings[d].abnormal_reason # Null
          /\ Val(readings[d].abnormal_reason)[1] = "exceeds_upper_threshold"
    /\ \E d \in DOMAIN readings :
          /\ readings[d].is_abnormal = 0
          /\ readings[d].abnormal_reason = Some(OperatorReason)

(* C8: a reading is Unaudited when create_environment_data commits it, abnormal
   or not, whatever the request body carried *)
C8_CreatedUnaudited ==
    [][\A d \in DataIds : Created(d) => readings'[d].audit_status = "Unaudited"]_vars

C8_Witness ==
    /\ response = Reply("create_environment_data", 200, {})
    /\ \E d, e \in DOMAIN readings :
          /\ readings[d].is_abnormal = 1 /\ readings[d].audit_status = "Unaudited"
          /\ readings[e].is_abnormal = 0 /\ readings[e].audit_status = "Unaudited"

(* C9: in every state, for every stored reading and every audit status, the
   audit call to that status succeeds and leaves the reading in that status *)
C9_AnyTransitionAccepted ==
    \A d \in DOMAIN readings, a \in AuditStatuses :
        ENABLED (/\ audit_environment_data(d, a, Null)
                 /\ response'.status = 200
                 /\ readings'[d].audit_status = a)

C9_Witness ==
    /\ response = Reply("audit_environment_data", 200, {})
    /\ \E d, e \in DOMAIN readings :
          /\ readings[d].audit_status = "PendingVerification"
          /\ readings[e].audit_status = "Unaudited"
          /\ readings[e].abnormal_reason = Some(OperatorReason)

(* C10: an audit of a data_id that is not stored replies 404 and leaves the
   readings, the devices, the indicators and the calibration records unchanged *)
C10_AuditNotFound ==
    [][response'.op = "audit_environment_data" =>
       \A d \in DataIds, a \in AuditStatuses, r \in ReasonArgs :
          (d \notin DOMAIN readings /\ audit_environment_data(d, a, r)) =>
              /\ response' = Reply("audit_environment_data", 404, {})
              /\ UNCHANGED <<indices, readings, devices, next_device_id,
                             calibration_records>>
    ]_vars

C10_Witness ==
    /\ response = Reply("audit_environment_data", 404, {})
    /\ readings = <<>>
    /\ DOMAIN indices # {}
    /\ DOMAIN devices # {}
    /\ DOMAIN calibration_records # {}

(* C6: the calibration-due query returns exactly the devices that are not
   offline and either were never calibrated or were last calibrated at least
   calibration_cycle whole days before the instant of the call *)
C6_DueExactly ==
    [][get_devices_needing_calibration =>
          response'.body =
              {d \in DOMAIN devices :
                  /\ devices[d].status # "offline"
                  /\ \/ devices[d].last_calibration_time = Null
                     \/ now - Val(devices[d].last_calibration_time)
                           >= devices[d].calibration_cycle * TicksPerDay}
    ]_vars

C6_Witness ==
    /\ response.op = "get_devices_needing_calibration"
    /\ \E d \in response.body :
          /\ d \in DOMAIN devices
          /\ devices[d].last_calibration_time # Null
          /\ now - Val(devices[d].last_calibration_time)
                = devices[d].calibration_cycle * TicksPerDay

(* C3: whatever update_monitor_index commits while create_environment_data is in
   flight, the committed reading is classified against one committed version of
   its indicator, the one the creating transaction read: both bounds come from
   that version *)
C3_ClassifiedAgainstOneVersion ==
    \A d \in DOMAIN readings :
        /\ thresholds_at_create[d] # Null
        /\ Val(thresholds_at_create[d]) \in index_versions
        /\ \E version \in index_versions :
              LET v == readings[d].monitor_value
                  u == version.upper_threshold
                  l == version.lower_threshold
              IN /\ version = Val(thresholds_at_create[d])
                 /\ readings[d].is_abnormal = IF Outside(v, u, l) THEN 1 ELSE 0
                 /\ readings[d].abnormal_reason =
                       IF v > u THEN Some(<<"exceeds_upper_threshold", v, u>>)
                       ELSE IF v < l THEN Some(<<"below_lower_threshold", v, l>>)
                       ELSE Null

C3_Witness ==
    /\ response = Reply("create_environment_data", 200, {})
    /\ \E d \in DOMAIN readings :
          /\ thresholds_at_create[d] = Some(TxnIndexRow)
          /\ readings[d].is_abnormal = 1
          /\ indices[readings[d].index_id].upper_threshold = 3
          /\ indices[readings[d].index_id].lower_threshold = 3

NewRecord(r) == r \notin DOMAIN calibration_records /\ r \in DOMAIN calibration_records'

(* C7: the step that makes a calibration record of an existing device visible
   is the step that makes the device's last_calibration_time the record's
   calibration_time, and last_calibration_time changes in no other step *)
C7_RecordAndDeviceTogether ==
    [][/\ \A r \in TxnRecordIds :
             (NewRecord(r) /\ calibration_records'[r].device_id \in DOMAIN devices') =>
                 devices'[calibration_records'[r].device_id].last_calibration_time
                     = Some(calibration_records'[r].calibration_time)
       /\ \A d \in DOMAIN devices \cap DOMAIN devices' :
             devices'[d].last_calibration_time # devices[d].last_calibration_time =>
                 \E r \in TxnRecordIds :
                     /\ NewRecord(r)
                     /\ calibration_records'[r].device_id = d
                     /\ devices'[d].last_calibration_time
                           = Some(calibration_records'[r].calibration_time)
    ]_vars

(* C11: the calibration-due query stores nothing and never returns an offline
   device; once update_device_status has set a device offline the query leaves
   it out at every later instant however long ago it was calibrated, and once
   the status is set to another value the query returns the device at exactly
   the instants at which it is due *)
C11_DueAtEachCall ==
    [][/\ get_devices_needing_calibration =>
             /\ UNCHANGED <<indices, readings, devices, next_device_id,
                            calibration_records, now>>
             /\ \A d \in DOMAIN devices :
                    devices[d].status = "offline" => d \notin response'.body
       /\ response'.op = "update_device_status" =>
             \A d \in DeviceRefs, s \in DeviceStatuses :
                 (d \in DOMAIN devices /\ update_device_status(d, s)) =>
                     \A t \in now..MaxNow :
                         LET later == EnvironmentQueries_get_devices_needing_calibration(DB', t)
                             last == devices[d].last_calibration_time
                         IN IF s = "offline"
                            THEN d \notin later
                            ELSE d \in later <=>
                                    \/ last = Null
                                    \/ t - Val(last) >= devices[d].calibration_cycle * TicksPerDay
    ]_vars

C11_Witness ==
    /\ response.op = "get_devices_needing_calibration"
    /\ \E d \in DOMAIN devices :
          /\ devices[d].status = "offline"
          /\ devices[d].last_calibration_time # Null
          /\ now - Val(devices[d].last_calibration_time)
                >= devices[d].calibration_cycle * TicksPerDay
          /\ d \notin response.body

(* C12: when a calibration record whose calibration_time is the current instant
   is committed for a stored device that is not offline, the calibration-due
   query at that instant does not return the device, nor at any later instant
   before calibration_cycle whole days have elapsed, and returns it from then on *)
C12_CalibratedNowNotDue ==
    [][response'.op = "create_calibration_record" =>
          \A r \in RecordIds :
              (/\ NewRecord(r)
               /\ calibration_records'[r].calibration_time = now
               /\ calibration_records'[r].device_id \in DOMAIN devices
               /\ devices[calibration_records'[r].device_id].status # "offline") =>
                  LET d == calibration_records'[r].device_id IN
                  \A t \in now..(MaxNow + TicksPerDay) :
                      d \in EnvironmentQueries_get_devices_needing_calibration(DB', t)
                          <=> t - now >= devices[d].calibration_cycle * TicksPerDay
    ]_vars

C12_Witness ==
    /\ response = Reply("create_calibration_record", 200, {})
    /\ \E r \in DOMAIN calibration_records :
          LET d == calibration_records[r].device_id IN
          /\ d \in DOMAIN devices
          /\ calibration_records[r].calibration_time = now
          /\ devices[d].last_calibration_time = Some(now)
          /\ devices[d].status # "offline"
          /\ now >= devices[d].calibration_cycle * TicksPerDay
          /\ d \notin EnvironmentQueries_get_devices_needing_calibration(DB, now)

(* C13: creating an indicator whose index_id is stored, or a reading whose
   data_id is stored, is refused with 400 (the id already exists), and every
   stored indicator and reading, the existing row among them, is left exactly as
   it was *)
C13_DuplicateCreateRefused ==
    [][/\ response'.op = "create_monitor_index" =>
             \A index \in IndexBodies :
                 (index.index_id \in DOMAIN indices /\ create_monitor_index(index)) =>
                     /\ response' = Reply("create_monitor_index", 400, {})
                     /\ indices' = indices
                     /\ readings' = readings
       /\ response'.op = "create_environment_data" =>
             \A body \in DataBodies :
                 (/\ body.data_id # Null
                  /\ Val(body.data_id) \in DOMAIN readings
                  /\ create_environment_data(body)) =>
                     /\ response' = Reply("create_environment_data", 400, {})
                     /\ readings' = readings
                     /\ indices' = indices
    ]_vars

C13_Witness ==
    /\ response = Reply("create_environment_data", 400, {})
    /\ \E d \in DOMAIN readings :
          /\ readings[d].index_id \in DOMAIN indices
          /\ readings[d].is_abnormal = 0
          /\ readings[d].monitor_value > indices[readings[d].index_id].upper_threshold

(* C14: creating a calibration record under a supplied record_id that is stored
   is refused with 400 (the id already exists), as the duplicate creates of an
   indicator and of a reading are, and the ledger and the devices are left as
   they were *)
C14_DuplicateRecordConflict ==
    [][response'.op = "create_calibration_record" =>
          \A body \in RecordBodies :
              (/\ body.record_id # Null
               /\ Val(body.record_id) \in DOMAIN calibration_records
               /\ create_calibration_record(body)) =>
                  /\ response' = Reply("create_calibration_record", 400, {})
                  /\ calibration_records' = calibration_records
                  /\ devices' = devices
    ]_vars

(* C15: a reading whose index_id names no stored indicator is accepted under a
   free data_id and stored with is_abnormal 0 and no reason, whatever its value *)
C15_UnknownIndicatorStoredNormal ==
    [][response'.op = "create_environment_data" =>
          \A body \in DataBodies :
              (/\ body.index_id \notin DOMAIN indices
               /\ body.data_id # Null
               /\ Val(body.data_id) \notin DOMAIN readings
               /\ create_environment_data(body)) =>
                  LET d == Val(body.data_id) IN
                  /\ response' = Reply("create_environment_data", 200, {})
                  /\ d \in DOMAIN readings'
                  /\ readings'[d].index_id = body.index_id
                  /\ readings'[d].monitor_value = body.monitor_value
                  /\ readings'[d].is_abnormal = 0
                  /\ readings'[d].abnormal_reason = Null
    ]_vars

C15_Witness ==
    /\ response = Reply("create_environment_data", 200, {})
    /\ \E d \in DOMAIN readings :
          /\ thresholds_at_create[d] = Null
          /\ readings[d].index_id \notin DOMAIN indices
          /\ readings[d].monitor_value = MaxValue
          /\ readings[d].is_abnormal = 0
          /\ readings[d].abnormal_reason = Null

(* C16: a calibration record whose device_id names no stored device is accepted
   under a free record_id and stored as submitted, and no device's
   last_calibration_time (nor anything else of a device) changes *)
C16_UnknownDeviceRecordStored ==
    [][response'.op = "create_calibration_record" =>
          \A body \in RecordBodies :
              (/\ body.device_id \notin DOMAIN devices
               /\ body.record_id # Null
               /\ Val(body.record_id) \notin DOMAIN calibration_records
               /\ create_calibration_record(body)) =>
                  LET r == Val(body.record_id) IN
                  /\ response' = Reply("create_calibration_record", 200, {})
                  /\ r \in DOMAIN calibration_records'
                  /\ calibration_records'[r].device_id = body.device_id
                  /\ calibration_records'[r].calibration_time = body.calibration_time
                  /\ devices' = devices
    ]_vars

C16_Witness ==
    /\ response = Reply("create_calibration_record", 200, {})
    /\ \E r \in DOMAIN calibration_records :
          /\ calibration_records[r].device_id \notin DOMAIN devices
          /\ \E d \in DOMAIN devices :
                devices[d].last_calibration_time
                    # Some(calibration_records[r].calibration_time)

(* The rows of a report reply *)
Rows(reply) == {reply.body[i] : i \in DOMAIN reply.body}

(* C17, as amended: in every row of the device quality rate report, total is the
   number of the device's readings collected at or after the window start,
   qualified is the number of those graded excellent or good, and the rate is
   100 * qualified / total rounded to the nearest hundredth, or 0 when total
   is 0 *)
C17_QualityRateRounded ==
    [][\A days \in ReportDays :
          get_device_quality_rate_report(days) =>
              \A row \in Rows(response') :
                  LET counted == {r \in DOMAIN readings :
                                     /\ readings[r].device_id = row.device_id
                                     /\ readings[r].collect_time >= now - days * TicksPerDay}
                      good == {r \in counted :
                                  readings[r].data_quality \in {"excellent", "good"}}
                      total == row.total_data_count
                      qualified == row.qualified_count
                      rate == row.qualified_rate
                  IN /\ total = Cardinality(counted)
                     /\ qualified = Cardinality(good)
                     /\ qualified <= total
                     /\ total = 0 => rate = 0
                     /\ total > 0 =>
                           /\ 2 * (rate * total - qualified * 10000) <= total
                           /\ 2 * (qualified * 10000 - rate * total) <= total
    ]_vars

C17_Witness ==
    /\ response.op = "get_device_quality_rate_report"
    /\ \E row \in Rows(response) :
          /\ row.total_data_count = 3
          /\ row.qualified_count = 2
          /\ row.qualified_rate = 6667

(* C17, as stated: total is the number of the device's readings collected at
   or after the window start, qualified the number of those graded excellent or
   good, and the rate is exactly 100 * qualified / total, or 0 when total is 0 *)
C17_QualityRateExact ==
    [][\A days \in ReportDays :
          get_device_quality_rate_report(days) =>
              \A row \in Rows(response') :
                  LET counted == {r \in DOMAIN readings :
                                     /\ readings[r].device_id = row.device_id
                                     /\ readings[r].collect_time >= now - days * TicksPerDay}
                      good == {r \in counted :
                                  readings[r].data_quality \in {"excellent", "good"}}
                  IN /\ row.total_data_count = Cardinality(counted)
                     /\ row.qualified_count = Cardinality(good)
                     /\ row.qualified_count <= row.total_data_count
                     /\ row.total_data_count = 0 => row.qualified_rate = 0
                     /\ row.total_data_count > 0 =>
                           row.qualified_rate * row.total_data_count
                               = row.qualified_count * 10000
    ]_vars

(* C18: the device quality rate report has exactly one row for every stored
   device and none for any other; a device with no reading at or after the
   window start has total 0 and qualified 0 *)
C18_EveryDeviceOneRow ==
    [][\A days \in ReportDays :
          get_device_quality_rate_report(days) =>
              /\ {row.device_id : row \in Rows(response')} = DOMAIN devices
              /\ Len(response'.body) = Cardinality(DOMAIN devices)
              /\ \A row \in Rows(response') :
                    (\A r \in DOMAIN readings :
                        \/ readings[r].device_id # row.device_id
                        \/ readings[r].collect_time < now - days * TicksPerDay) =>
                        /\ row.total_data_count = 0
                        /\ row.qualified_count = 0
    ]_vars

(* C19: the overdue-calibration report returns a reading of a stored device and
   a stored indicator, collected at or after the window start, exactly when the
   device was never calibrated or more than calibration_cycle whole days have
   passed since its last calibration; when exactly calibration_cycle whole days
   have passed, none of the device's readings is returned, while the
   calibration-due query at the same instant returns the device unless it is
   offline *)
C19_OverdueStrictlyAfterCycle ==
    [][\A days \in ReportDays :
          get_overdue_calibration_data_report(days) =>
              /\ \A r \in DOMAIN readings :
                    (/\ readings[r].device_id \in DOMAIN devices
                     /\ readings[r].index_id \in DOMAIN indices
                     /\ readings[r].collect_time >= now - days * TicksPerDay) =>
                        LET device == devices[readings[r].device_id] IN
                        (r \in {row.data_id : row \in Rows(response')}) <=>
                            \/ device.last_calibration_time = Null
                            \/ (now - Val(device.last_calibration_time)) \div TicksPerDay
                                  > device.calibration_cycle
              /\ \A d \in DOMAIN devices :
                    (/\ devices[d].last_calibration_time # Null
                     /\ (now - Val(devices[d].last_calibration_time)) \div TicksPerDay
                           = devices[d].calibration_cycle) =>
                        /\ \A row \in Rows(response') : row.device_id # d
                        /\ devices[d].status # "offline" =>
                              d \in EnvironmentQueries_get_devices_needing_calibration(DB, now)
    ]_vars

(* C20: the protected-area abnormal report for an indicator name returns exactly
   the readings that are flagged abnormal, were collected at or after the window
   start, belong to a stored indicator of that name and lie in a core-protection
   area; for a name no stored indicator has, the reply is the empty report, with
   status 200 *)
C20_CoreAbnormalExactly ==
    [][\A name \in IndexNames, days \in ReportDays :
          get_core_protection_abnormal_report(name, days) =>
              /\ response'.status = 200
              /\ {row.data_id : row \in Rows(response')} =
                    {r \in DOMAIN readings :
                        /\ readings[r].is_abnormal = 1
                        /\ readings[r].collect_time >= now - days * TicksPerDay
                        /\ readings[r].index_id \in DOMAIN indices
                        /\ indices[readings[r].index_id].index_name = name
                        /\ readings[r].area_id \in DOMAIN Areas
                        /\ Areas[readings[r].area_id].type = "core_protection"}
              /\ (\A i \in DOMAIN indices : indices[i].index_name # name) =>
                    response'.body = <<>>
    ]_vars

(* A reading collected inside the window that starts days before the instant
   and ends at the instant *)
InWindow(r, instant, days) ==
    /\ readings[r].collect_time >= instant - days * TicksPerDay
    /\ readings[r].collect_time <= instant

(* C21: each of the three reports takes into account only readings collected in
   the window that starts days before the call and ends at the call: the quality
   report counts exactly the device's readings of that window, and the
   overdue-calibration and protected-area reports return no reading collected
   before the window start or after the call *)
C21_WindowEndsAtCall ==
    [][/\ \A days \in ReportDays :
             get_device_quality_rate_report(days) =>
                 \A row \in Rows(response') :
                     /\ row.total_data_count =
                           Cardinality({r \in DOMAIN readings :
                                           /\ readings[r].device_id = row.device_id
                                           /\ InWindow(r, now, days)})
                     /\ row.qualified_count =
                           Cardinality({r \in DOMAIN readings :
                                           /\ readings[r].device_id = row.device_id
                                           /\ InWindow(r, now, days)
                                           /\ readings[r].data_quality
                                                 \in {"excellent", "good"}})
       /\ \A days \in ReportDays :
             get_overdue_calibration_data_report(days) =>
                 \A row \in Rows(response') : InWindow(row.data_id, now, days)
       /\ \A name \in IndexNames, days \in ReportDays :
             get_core_protection_abnormal_report(name, days) =>
                 \A row \in Rows(response') : InWindow(row.data_id, now, days)
    ]_vars

(* C22: a stored device's last_calibration_time changes only in a step that
   commits a calibration record of that device, and then to that record's
   calibration_time; status updates, reading creation, audits, indicator
   operations, deletes, reports and records of other devices leave it as it was *)
C22_CalibrationTimeOnlyByRecord ==
    [][\A d \in DOMAIN devices \cap DOMAIN devices' :
          devices'[d].last_calibration_time # devices[d].last_calibration_time =>
              /\ response'.op = "create_calibration_record"
              /\ response'.status = 200
              /\ \E r \in RecordIds :
                    /\ NewRecord(r)
                    /\ calibration_records'[r].device_id = d
                    /\ devices'[d].last_calibration_time
                          = Some(calibration_records'[r].calibration_time)
    ]_vars

C22_Witness ==
    /\ response.op = "update_device_status"
    /\ response.status = 200
    /\ \E d \in DOMAIN devices, r \in DOMAIN calibration_records :
          /\ calibration_records[r].device_id = d
          /\ devices[d].status = "offline"
          /\ devices[d].last_calibration_time
                = Some(calibration_records[r].calibration_time)
    /\ DOMAIN readings # {}

(* C23: a stored reading's audit_status and abnormal_reason change only in a
   step of the audit call on that reading; indicator updates and deletes, device
   status updates, calibration records, creation of other readings and the
   reports leave them as they were *)
C23_AuditFieldsOnlyByAudit ==
    [][\A d \in DOMAIN readings \cap DOMAIN readings' :
          (\/ readings'[d].audit_status # readings[d].audit_status
           \/ readings'[d].abnormal_reason # readings[d].abnormal_reason) =>
              /\ response'.op = "audit_environment_data"
              /\ response'.status = 200
              /\ \E a \in AuditStatuses, r \in ReasonArgs :
                    audit_environment_data(d, a, r)
    ]_vars

C23_Witness ==
    /\ response.op = "update_monitor_index"
    /\ response.status = 200
    /\ \E d \in DOMAIN readings :
          /\ readings[d].index_id \in DOMAIN indices
          /\ readings[d].audit_status = "Audited"
          /\ readings[d].abnormal_reason = Some(OperatorReason)
          /\ readings[d].monitor_value > indices[readings[d].index_id].upper_threshold

(* C24: a committed calibration record never moves a stored device's
   last_calibration_time to an earlier instant than the one it held before the
   call *)
C24_CalibrationTimeAdvances ==
    [][response'.op = "create_calibration_record" =>
          \A d \in DOMAIN devices \cap DOMAIN devices' :
              (/\ devices[d].last_calibration_time # Null
               /\ devices'[d].last_calibration_time # Null) =>
                  Val(devices'[d].last_calibration_time)
                      >= Val(devices[d].last_calibration_time)
    ]_vars

(* C25: an audit call, a device status update or an indicator partial update
   applied again with the same arguments to the state it produced gives the same
   reply and leaves every table as it is, and a delete applied again to the id it
   removed (or to any id that is not stored) is answered 404 and leaves every
   table as it is *)
C25_RetrySafe ==
    [][/\ response'.op = "audit_environment_data" =>
          \A d \in FewDataIds, a \in FewAuditStatuses, r \in ReasonArgs :
             audit_environment_data(d, a, r) =>
                 LET again == EnvironmentQueries_update_data_audit_status(DB', d, a, r)
                 IN /\ again.db = DB'
                    /\ (again.result = Null) <=> (response'.status = 404)
       /\ response'.op = "update_device_status" =>
          \A d \in FewDeviceRefs, st \in DeviceStatuses :
             update_device_status(d, st) =>
                 LET again == EnvironmentQueries_update_device_status(DB', d, st)
                 IN /\ again.db = DB'
                    /\ (again.result = Null) <=> (response'.status = 404)
       /\ response'.op = "update_monitor_index" =>
          \A i \in IndexIds, payload \in FewUpdatePayloads :
             update_monitor_index(i, payload) =>
                 LET again == EnvironmentQueries_update_monitor_index(DB', i, payload)
                 IN /\ again.db = DB'
                    /\ (again.result = Null) <=> (response'.status = 404)
       /\ response'.op = "delete_monitor_index" =>
          \A i \in IndexIds :
             delete_monitor_index(i) =>
                 /\ EnvironmentQueries_delete_monitor_index(DB', i)
                       = [db |-> DB', result |-> FALSE]
                 /\ i \notin DOMAIN indices => (response'.status = 404 /\ DB' = DB)
       /\ response'.op = "delete_environment_data" =>
          \A d \in FewDataIds :
             delete_environment_data(d) =>
                 /\ EnvironmentQueries_delete_environment_data(DB', d)
                       = [db |-> DB', result |-> FALSE]
                 /\ d \notin DOMAIN readings => (response'.status = 404 /\ DB' = DB)
       /\ response'.op = "delete_monitor_device" =>
          \A d \in FewDeviceRefs :
             delete_monitor_device(d) =>
                 /\ EnvironmentQueries_delete_monitor_device(DB', d)
                       = [db |-> DB', result |-> FALSE]
                 /\ d \notin DOMAIN devices => (response'.status = 404 /\ DB' = DB)
       /\ response'.op = "delete_calibration_record" =>
          \A r \in RecordIds :
             delete_calibration_record(r) =>
                 /\ EnvironmentQueries_delete_calibration_record(DB', r)
                       = [db |-> DB', result |-> FALSE]
                 /\ r \notin DOMAIN calibration_records =>
                       (response'.status = 404 /\ DB' = DB)
    ]_vars

C25_Witness ==
    /\ response.op = "delete_environment_data"
    /\ response.status = 404
    /\ readings = <<>>
    /\ \E i \in DOMAIN indices : indices[i].upper_threshold = 1
    /\ \E d \in DOMAIN devices : devices[d].status = "offline"
    /\ DOMAIN calibration_records # {}

(* C26: every stored device has a calibration_cycle of at least 1; a create
   whose calibration cycle is below 1 is answered 422 and stores nothing, a
   create without a cycle stores the device with cycle 30, and no step changes
   the calibration_cycle of a stored device *)
C26_CyclePositive ==
    /\ [](\A d \in DOMAIN devices :
             devices[d].calibration_cycle \in Nat /\ devices[d].calibration_cycle >= 1)
    /\ [][/\ response'.op = "create_monitor_device" =>
                \A body \in CycleDeviceBodies :
                    create_monitor_device(body) =>
                        /\ (body.calibration_cycle # Null /\ Val(body.calibration_cycle) < 1) =>
                              /\ response'.status = 422
                              /\ DB' = DB
                        /\ (body.calibration_cycle = Null /\ response'.status = 200) =>
                              \E d \in DOMAIN devices' \ DOMAIN devices :
                                  devices'[d].calibration_cycle = 30
          /\ \A d \in DOMAIN devices \cap DOMAIN devices' :
                devices'[d].calibration_cycle = devices[d].calibration_cycle
       ]_vars

C26_Witness ==
    /\ response.op = "create_monitor_device"
    /\ response.status = 422
    /\ \E d \in DOMAIN devices :
          /\ devices[d].calibration_cycle = 30
          /\ devices[d].status = "offline"
          /\ devices[d].last_calibration_time = Some(MaxNow)

(* C27: an indicator whose upper threshold is below its lower threshold is
   stored as submitted by create and by update; every reading created while its
   indicator is such is flagged abnormal whatever its value, with the
   exceeds-upper reason when the value is above the upper threshold (below the
   lower one or not) and the below-lower reason otherwise *)
C27_InvertedThresholds ==
    [][/\ response'.op = "create_monitor_index" =>
             \A index \in InvertedIndexBodies :
                 (index.index_id \notin DOMAIN indices /\ create_monitor_index(index)) =>
                     /\ response'.status = 200
                     /\ indices'[index.index_id].upper_threshold = index.upper_threshold
                     /\ indices'[index.index_id].lower_threshold = index.lower_threshold
       /\ response'.op = "update_monitor_index" =>
             \A i \in IndexIds, payload \in InvertedUpdatePayloads :
                 (i \in DOMAIN indices /\ update_monitor_index(i, payload)) =>
                     /\ response'.status = 200
                     /\ payload.upper_threshold # Null =>
                           indices'[i].upper_threshold = Val(payload.upper_threshold)
                     /\ payload.lower_threshold # Null =>
                           indices'[i].lower_threshold = Val(payload.lower_threshold)
       /\ \A d \in DataIds :
             (/\ Created(d)
              /\ readings'[d].index_id \in DOMAIN indices
              /\ indices[readings'[d].index_id].upper_threshold
                    < indices[readings'[d].index_id].lower_threshold) =>
                 LET v == readings'[d].monitor_value
                     upper == indices[readings'[d].index_id].upper_threshold
                     lower == indices[readings'[d].index_id].lower_threshold
                 IN /\ readings'[d].is_abnormal = 1
                    /\ readings'[d].abnormal_reason =
                          IF v > upper
                          THEN Some(<<"exceeds_upper_threshold", v, upper>>)
                          ELSE Some(<<"below_lower_threshold", v, lower>>)
    ]_vars

C27_Witness ==
    /\ response.op = "create_environment_data"
    /\ response.status = 200
    /\ \E d, e \in DOMAIN readings :
          /\ thresholds_at_create[d] # Null
          /\ Val(thresholds_at_create[d]).upper_threshold = 1
          /\ Val(thresholds_at_create[d]).lower_threshold = 3
          /\ readings[d].monitor_value = 2
          /\ readings[d].abnormal_reason = Some(<<"exceeds_upper_threshold", 2, 1>>)
          /\ thresholds_at_create[e] = thresholds_at_create[d]
          /\ readings[e].monitor_value = 1
          /\ readings[e].abnormal_reason = Some(<<"below_lower_threshold", 1, 3>>)

(* C28: when two creates of one indicator id, or of one reading id, have both
   passed the existence check before either commits, the first commit stores
   the row with its request's values and the other commit fails (status 500)
   and leaves the stored row as it is: a stored row is never replaced *)
C28_FirstCommitWins ==
    [][/\ \A i \in DOMAIN indices : i \in DOMAIN indices' /\ indices'[i] = indices[i]
       /\ \A d \in DOMAIN readings : d \in DOMAIN readings' /\ readings'[d] = readings[d]
       /\ \A s \in SessionIds :
             txn_create_monitor_index_commit(s) =>
                 LET index == sessions[s].body IN
                 IF index.index_id \in DOMAIN indices
                 THEN response'.status = 500 /\ indices' = indices
                 ELSE /\ response'.status = 200
                      /\ DOMAIN indices' = DOMAIN indices \cup {index.index_id}
                      /\ indices'[index.index_id].upper_threshold = index.upper_threshold
                      /\ indices'[index.index_id].lower_threshold = index.lower_threshold
       /\ \A s \in SessionIds :
             txn_create_environment_data_commit(s) =>
                 LET data == sessions[s].body IN
                 IF Val(data.data_id) \in DOMAIN readings
                 THEN response'.status = 500 /\ readings' = readings
                 ELSE /\ response'.status = 200
                      /\ DOMAIN readings' = DOMAIN readings \cup {Val(data.data_id)}
                      /\ readings'[Val(data.data_id)].monitor_value = data.monitor_value
                      /\ readings'[Val(data.data_id)].area_id = data.area_id
    ]_vars

C28_Witness ==
    /\ response = Reply("create_monitor_index", 500, {})
    /\ \E i \in DOMAIN indices : indices[i].upper_threshold = 2
    /\ \A s \in SessionIds : sessions[s] = Idle

(* C29: whenever a record_calibration transaction for a stored device commits,
   with another one for the same device in flight or not, its record is in the
   ledger beside those committed before and the device's last_calibration_time
   is the calibration time of the committing transaction, the last to commit *)
C29_LastCommitSetsTime ==
    [][\A s \in SessionIds :
          (/\ txn_create_calibration_record_commit(s)
           /\ response'.status = 200
           /\ sessions[s].body.device_id \in DOMAIN devices) =>
              LET record == sessions[s].body IN
              /\ DOMAIN calibration_records' =
                    DOMAIN calibration_records \cup {Val(record.record_id)}
              /\ \A r \in DOMAIN calibration_records :
                    calibration_records'[r] = calibration_records[r]
              /\ calibration_records'[Val(record.record_id)].calibration_time
                    = record.calibration_time
              /\ devices'[record.device_id].last_calibration_time
                    = Some(record.calibration_time)
    ]_vars

(* C30: deleting a calibration record changes no device: the device whose
   last_calibration_time the record set keeps that time, and the
   calibration-due query returns the same devices after the delete as before *)
C30_DeleteRecordKeepsDevice ==
    [][response'.op = "delete_calibration_record" =>
          \A r \in RecordIds :
              delete_calibration_record(r) =>
                  /\ devices' = devices
                  /\ r \notin DOMAIN calibration_records'
                  /\ \A t \in now..MaxNow :
                        EnvironmentQueries_get_devices_needing_calibration(DB', t)
                            = EnvironmentQueries_get_devices_needing_calibration(DB, t)
    ]_vars

C30_Witness ==
    /\ response.op = "delete_calibration_record"
    /\ response.status = 200
    /\ calibration_records = <<>>
    /\ \E d \in DOMAIN devices :
          /\ devices[d].last_calibration_time = Some(now)
          /\ now > 0
          /\ devices[d].status # "offline"
          /\ d \notin EnvironmentQueries_get_devices_needing_calibration(DB, now)

====
